---------------------------- MODULE Spec2Model ----------------------------
(***************************************************************************)
(* A model of nvidia-smi-tk (src/App.py): the background polling worker,   *)
(* the mailbox gpu_data_cache, the Tk consumer tick update_gui, the        *)
(* history ring buffers and the alert debounce of check_alerts.            *)
(*                                                                         *)
(* Numbers printed by the tool are decimals; a numeric token n stands for  *)
(* the decimal n / Scale: with Scale = 10 the token 855 is "85.5".         *)
(* Clock values are whole seconds since the epoch.                         *)
(***************************************************************************)
EXTENDS Integers, Sequences, FiniteSets, TLC

(***************************************************************************)
(* Program constants                                                       *)
(***************************************************************************)
HISTORY_SIZE == 300

RETRIES == 3

\* run_with_retry(func, retries=3, delay=1): seconds slept between attempts
RETRY_DELAY == 1

ALERT_COOLDOWN == 300

DEFAULT_ALERT_TEMP == 80

DEFAULT_ALERT_UTIL == 90

DEFAULT_REFRESH_RATE == 2000

SLEEP_SLICE_MS == 100

SECONDS_PER_DAY == 86400

(***************************************************************************)
(* Bounds of the model                                                     *)
(***************************************************************************)
Scale == 10

MaxRefresh == 1

MaxEvents == 3

ExtraAppends == 3

MaxTime == 1000

BootTime == 500

InitRefreshRate == 200
\* Longest output line given to parse_gpu_metrics, in fields
MaxFields == 10
\* Longest process block given to parse_processes, in lines
MaxProcLines == 3
\* Seconds the clock of SpecStamp runs for
StampSeconds == 1

(***************************************************************************)
(* Tokens and lines of tool output.  A line is the list of its comma-      *)
(* separated, stripped fields.                                             *)
(***************************************************************************)
Num(n) == [kind |-> "num", val |-> n]

Empty == [kind |-> "empty", val |-> 0]

NA == [kind |-> "na", val |-> 0]

Junk == [kind |-> "junk", val |-> 0]

\* The decimal w.f, held in units of 1 / Scale
Dec(w, f) == Num(w * Scale + f)

\* "45, 2048, 8192, 65, 120.5, 250, 40, 1500, 7000"
LineCool ==
    << Dec(45, 0), Dec(2048, 0), Dec(8192, 0), Dec(65, 0), Dec(120, 5),
       Dec(250, 0), Dec(40, 0), Dec(1500, 0), Dec(7000, 0) >>

\* "95, 4096, 8192, 85.5, 240, 250, [N/A], 1800, 7000": over both thresholds
LineHot ==
    << Dec(95, 0), Dec(4096, 0), Dec(8192, 0), Dec(85, 5), Dec(240, 0),
       Dec(250, 0), NA, Dec(1800, 0), Dec(7000, 0) >>

\* "30, 1024, 8192, 80, 100, 250": at the default temperature threshold,
\* idle, six fields only
LineHotIdle ==
    << Dec(30, 0), Dec(1024, 0), Dec(8192, 0), Dec(80, 0), Dec(100, 0),
       Dec(250, 0) >>

\* "95, 1024, , ERR!": utilization over the threshold, temperature unparsable
LineBad == << Dec(95, 0), Dec(1024, 0), Empty, Junk >>

FieldKeys ==
    << "utilization", "mem_used", "mem_total", "temperature", "power_draw",
       "power_limit", "fan_speed", "clock_gpu", "clock_mem" >>

\* IntTrunc, were it to round up
IntTrunc_Ceil(v) == ((v + Scale - 1) \div Scale) * Scale

\* int(float(x)): truncation toward zero of a decimal held in 1 / Scale
IntTrunc(v) ==
    IF v >= 0 THEN (v \div Scale) * Scale ELSE 0 - (((0 - v) \div Scale) * Scale)

FieldDefault(i) == IF i \in {3, 6} THEN Scale ELSE 0

\* The value one assignment of parse_gpu_metrics computes, or the exception
\* it raises (IndexError on a missing mandatory field, ValueError of float()).
FieldResult(parts, i) ==
    LET raise(e) == [raise |-> TRUE, none |-> FALSE, v |-> 0, exc |-> e]
        val(x) == [raise |-> FALSE, none |-> FALSE, v |-> x, exc |-> "none"]
        none == [raise |-> FALSE, none |-> TRUE, v |-> 0, exc |-> "none"]
        conv(tok) == IF tok.kind = "num"
                       THEN val(IF i = 4 THEN IntTrunc(tok.val) ELSE tok.val)
                       ELSE raise("ValueError")
    IN  IF i <= 6
          THEN IF Len(parts) < i THEN raise("IndexError")
               ELSE IF parts[i].kind = "empty" THEN val(FieldDefault(i))
               ELSE conv(parts[i])
        ELSE IF i = 7
          THEN IF Len(parts) > 6 /\ parts[7].kind # "empty" /\ parts[7].kind # "na"
                 THEN conv(parts[7])
                 ELSE none
        ELSE IF Len(parts) > i - 1 /\ parts[i].kind # "empty"
               THEN conv(parts[i])
               ELSE val(0)

\* The first assignment that raises (10 when none does): the except clause
\* keeps what was assigned before it.
FirstRaise(parts) ==
    LET bad == {i \in 1..9 : FieldResult(parts, i).raise}
    IN  IF bad = {} THEN 10 ELSE CHOOSE i \in bad : \A j \in bad : i <= j

KeyIndex(k) == CHOOSE i \in 1..9 : FieldKeys[i] = k

\* Catches, were the clause "except ValueError"
Catches_ValueErrorOnly(exc) == exc = "ValueError"

\* except Exception (line 476) catches whatever the try block raises
Catches(exc) == TRUE

\* metrics as a dict: vals holds the keys bound to numbers, none the keys
\* bound to None; raised tells whether an exception leaves the function.
parse_gpu_metrics(output) ==
    LET parts == output
        stop == FirstRaise(parts)
        done == {i \in 1..9 : i < stop}
    IN  [vals |-> [k \in {FieldKeys[i] : i \in {j \in done : ~FieldResult(parts, j).none}}
                     |-> FieldResult(parts, KeyIndex(k)).v],
         none |-> {FieldKeys[i] : i \in {j \in done : FieldResult(parts, j).none}},
         raised |-> stop <= 9 /\ ~Catches(FieldResult(parts, stop).exc)]

\* metrics.get(key, default) for a key that is never None on this path
MetricsGet(metrics, key, default) ==
    IF key \in DOMAIN metrics.vals THEN metrics.vals[key] ELSE default

(***************************************************************************)
(* Dicts (gpu_data_cache, last_alert_time) are functions on the keys set.  *)
(***************************************************************************)
EmptyDict == [k \in {} |-> 0]

DictSet(d, key, v) ==
    [k \in (DOMAIN d) \cup {key} |-> IF k = key THEN v ELSE d[k]]

DictGet(d, key, default) == IF key \in DOMAIN d THEN d[key] ELSE default

\* d.pop(key, None)
DictPop(d, key) == [k \in (DOMAIN d) \ {key} |-> d[k]]

\* DequeAppend, were a full deque to refuse the new entry
DequeAppend_KeepOldest(q, x) ==
    IF Len(q) >= HISTORY_SIZE THEN q ELSE Append(q, x)

\* deque(maxlen=HISTORY_SIZE).append: a full deque drops its oldest entry
DequeAppend(q, x) ==
    IF Len(q) >= HISTORY_SIZE THEN Append(Tail(q), x) ELSE Append(q, x)

\* timestamp.strftime('%H:%M:%S'): the time of day, the date is dropped
Strftime(t) == t % SECONDS_PER_DAY

\* (mem_used / mem_total) * 100 if mem_total else 0, rounded down to 1 / Scale
MemPercent(mem_used, mem_total) ==
    IF mem_total # 0 THEN (mem_used * 100 * Scale) \div mem_total ELSE 0

(***************************************************************************)
(* check_alerts(metrics, config) at clock value t, on AlertState last:     *)
(* the new AlertState and the notifications shown, in order.               *)
(***************************************************************************)
\* DebounceOver, were the comparison >= instead of >
DebounceOver_AtLeast(t, last, kind) ==
    t - DictGet(last, kind, 0) >= ALERT_COOLDOWN

\* DebounceOver, were the cooldown 30 seconds
DebounceOver_Short(t, last, kind) ==
    t - DictGet(last, kind, 0) > ALERT_COOLDOWN \div 10

DebounceOver(t, last, kind) == t - DictGet(last, kind, 0) > ALERT_COOLDOWN

\* check_alerts, were the utilization alert to read the temperature timer
check_alerts_SharedTimer(last, metrics, cfg, t) ==
    LET temp == MetricsGet(metrics, "temperature", 0)
        util == MetricsGet(metrics, "utilization", 0)
        fireT == temp >= cfg.alert_temp * Scale /\ DebounceOver(t, last, "temp")
        last1 == IF fireT THEN DictSet(last, "temp", t) ELSE last
        fireU == util >= cfg.alert_util * Scale /\ DebounceOver(t, last1, "temp")
        last2 == IF fireU THEN DictSet(last1, "util", t) ELSE last1
    IN  IF ~cfg.alert_enabled
          THEN [last |-> last, shown |-> << >>]
          ELSE [last |-> last2,
                shown |-> (IF fireT THEN << "temp" >> ELSE << >>)
                          \o (IF fireU THEN << "util" >> ELSE << >>)]

\* check_alerts, were the alert_enabled test missing
check_alerts_NoEnabledTest(last, metrics, cfg, t) ==
    LET temp == MetricsGet(metrics, "temperature", 0)
        util == MetricsGet(metrics, "utilization", 0)
        fireT == temp >= cfg.alert_temp * Scale /\ DebounceOver(t, last, "temp")
        last1 == IF fireT THEN DictSet(last, "temp", t) ELSE last
        fireU == util >= cfg.alert_util * Scale /\ DebounceOver(t, last1, "util")
        last2 == IF fireU THEN DictSet(last1, "util", t) ELSE last1
    IN  [last |-> last2,
         shown |-> (IF fireT THEN << "temp" >> ELSE << >>)
                   \o (IF fireU THEN << "util" >> ELSE << >>)]

check_alerts(last, metrics, cfg, t) ==
    LET temp == MetricsGet(metrics, "temperature", 0)
        util == MetricsGet(metrics, "utilization", 0)
        fireT == temp >= cfg.alert_temp * Scale /\ DebounceOver(t, last, "temp")
        last1 == IF fireT THEN DictSet(last, "temp", t) ELSE last
        fireU == util >= cfg.alert_util * Scale /\ DebounceOver(t, last1, "util")
        last2 == IF fireU THEN DictSet(last1, "util", t) ELSE last1
    IN  IF ~cfg.alert_enabled
          THEN [last |-> last, shown |-> << >>]
          ELSE [last |-> last2,
                shown |-> (IF fireT THEN << "temp" >> ELSE << >>)
                          \o (IF fireU THEN << "util" >> ELSE << >>)]

(***************************************************************************)
(* State                                                                   *)
(***************************************************************************)
VARIABLES
    stop_update,      \* the global stop flag
    update_thread,    \* id of the thread last started (0: None)
    worker,           \* per thread: its position in background_worker
    gpu_data_cache,   \* the mailbox
    history_data,     \* the five deques
    last_alert_time,  \* AlertState
    config,           \* self.config
    now,              \* the wall clock, in seconds
    mpc,              \* position of the Tk main thread
    ug,               \* locals of the running update_gui call
    timers,           \* pending root.after(..., self.update_gui) callbacks
    nticks,           \* update_gui calls that reached the history appends
    nrefresh,         \* manual refreshes requested
    alert_log,        \* inputs and outcome of the latest check_alerts call
    call,             \* the latest call of a parser or of a dialog callback
    static_cache      \* the facts resolved once: gpu_name, power_limits

vars ==
    << stop_update, update_thread, worker, gpu_data_cache, history_data,
       last_alert_time, config, now, mpc, ug, timers, nticks, nrefresh,
       alert_log, call, static_cache >>

Threads == 1..(MaxRefresh + 1)

NoPub == << 0, 0 >>

ErrorOutput(kind) == [status |-> kind, parts |-> << >>]

OkOutput(line) == [status |-> "ok", parts |-> line]

\* gpu_output.startswith("Error")
StartsWithError(out) == out.status # "ok"

ProcBlock == << << "4242", "python", "512" >>, << "17", "truncated" >> >>

NoRes == [gpu |-> ErrorOutput("none"), proc |-> << >>]

\* A thread's locals: attempt and slept are run_with_retry's loop index and
\* the seconds it has slept in this cycle, ts the value datetime.now()
\* returned and line 1358 has still to store.
IdleWorker ==
    [pc |-> "none", attempt |-> 0, slept |-> 0, left |-> 0, n |-> 0,
     res |-> NoRes, ts |-> 0]

NoLocals ==
    [gpu |-> [pub |-> NoPub, val |-> ErrorOutput("none")],
     proc |-> [pub |-> NoPub, val |-> << >>],
     ts |-> [pub |-> NoPub, val |-> 0],
     tick |-> 0]

NoAlertLog ==
    [called |-> FALSE, time |-> 0, enabled |-> TRUE, temp |-> 0, util |-> 0,
     alert_temp |-> 0, alert_util |-> 0, before |-> EmptyDict, shown |-> << >>]

NoCall == [fn |-> "none", arg |-> << >>, res |-> << >>]

EmptyHistory ==
    [time |-> << >>, utilization |-> << >>, temperature |-> << >>,
     power |-> << >>, memory |-> << >>]

\* load_config's defaults, as far as the core reads them
DefaultConfig ==
    [refresh_rate |-> DEFAULT_REFRESH_RATE, alert_temp |-> DEFAULT_ALERT_TEMP,
     alert_util |-> DEFAULT_ALERT_UTIL, alert_enabled |-> TRUE]

\* What one fetch attempt can give: the tool's two outputs, or an exception
\* (FileNotFoundError when the binary is missing, any other otherwise)
FetchLines == {LineHot}

FetchFailures == {"notfound", "error"}

(***************************************************************************)
(* Init: GPUMonitorApp.__init__ has loaded the config and is about to call *)
(* start_background_update (line 677).                                     *)
(***************************************************************************)
\* load_config merges whatever the config file holds over the defaults
\* (lines 136-140); a file with a short refresh_rate keeps the worker's
\* sleep loop at InitRefreshRate \div SLEEP_SLICE_MS slices.
InitConfigs ==
    {[DefaultConfig EXCEPT !.refresh_rate = InitRefreshRate]}

Init ==
    /\ stop_update = FALSE
    /\ update_thread = 0
    /\ worker = [w \in Threads |-> IdleWorker]
    /\ gpu_data_cache = EmptyDict
    /\ history_data = EmptyHistory
    /\ last_alert_time = EmptyDict
    /\ config \in InitConfigs
    /\ now = BootTime
    /\ mpc = "sbu"
    /\ ug = NoLocals
    /\ timers = 0
    /\ nticks = 0
    /\ nrefresh = 0
    /\ alert_log = NoAlertLog
    /\ call = NoCall
    /\ static_cache = EmptyDict

(***************************************************************************)
(* background_worker, one action per step of thread w                      *)
(***************************************************************************)
main_vars ==
    << update_thread, history_data, last_alert_time, config, now, mpc, ug,
       timers, nticks, nrefresh, alert_log, call, static_cache >>

RECURSIVE SumN(_)
SumN(S) == IF S = {} THEN 0
           ELSE LET w == CHOOSE x \in S : TRUE IN worker[w].n + SumN(S \ {w})

\* Poll cycles begun so far, by all threads
Published == SumN(Threads)

\* The events the model bounds: poll cycles, history samples, refreshes
Events == Published + nticks + nrefresh

\* while not stop_update (line 1353); a new poll cycle begins while fewer
\* than bound events have happened
WorkerLoopUpTo(w, bound) ==
    /\ worker[w].pc = "loop"
    /\ \/ /\ stop_update
          /\ worker' = [worker EXCEPT ![w].pc = "done"]
       \/ /\ ~stop_update
          /\ Events < bound
          /\ worker' = [worker EXCEPT ![w].pc = "fetch", ![w].attempt = 0,
                                      ![w].slept = 0, ![w].n = @ + 1]
    /\ UNCHANGED << stop_update, gpu_data_cache, main_vars >>

WorkerLoop(w) == WorkerLoopUpTo(w, MaxEvents)

\* One attempt of run_with_retry(fetch) inside get_nvidia_smi_output
\* succeeds: the result is returned at once.
WorkerFetchOk(w) ==
    /\ worker[w].pc = "fetch"
    /\ \E line \in FetchLines :
         worker' = [worker EXCEPT
                      ![w].pc = "write_gpu",
                      ![w].res = [gpu |-> OkOutput(line), proc |-> ProcBlock]]
    /\ UNCHANGED << stop_update, gpu_data_cache, main_vars >>

\* WorkerFetchFail, were the last attempt's exception to leave the thread
WorkerFetchFail_Dies(w) ==
    /\ worker[w].pc = "fetch"
    /\ \E f \in FetchFailures :
         IF worker[w].attempt = RETRIES - 1
           THEN worker' = [worker EXCEPT ![w].pc = "done"]
           ELSE worker' = [worker EXCEPT ![w].attempt = @ + 1,
                                         ![w].slept = @ + RETRY_DELAY]
    /\ UNCHANGED << stop_update, gpu_data_cache, main_vars >>

\* WorkerFetchFail, were a failed attempt retried at once and without limit
WorkerFetchFail_NoDelay(w) ==
    /\ worker[w].pc = "fetch"
    /\ \E f \in FetchFailures :
         IF worker[w].attempt = RETRIES
           THEN worker' = [worker EXCEPT
                             ![w].pc = "write_gpu",
                             ![w].res = [gpu |-> ErrorOutput(f), proc |-> << >>]]
           ELSE worker' = [worker EXCEPT ![w].attempt = @ + 1]
    /\ UNCHANGED << stop_update, gpu_data_cache, main_vars >>

\* One attempt raises: the last one's exception is turned into an error
\* string by get_nvidia_smi_output, any other is followed by
\* time.sleep(delay) and the next attempt.
WorkerFetchFail(w) ==
    /\ worker[w].pc = "fetch"
    /\ \E f \in FetchFailures :
         IF worker[w].attempt = RETRIES - 1
           THEN worker' = [worker EXCEPT
                             ![w].pc = "write_gpu",
                             ![w].res = [gpu |-> ErrorOutput(f), proc |-> << >>]]
           ELSE worker' = [worker EXCEPT ![w].attempt = @ + 1,
                                         ![w].slept = @ + RETRY_DELAY]
    /\ UNCHANGED << stop_update, gpu_data_cache, main_vars >>

\* gpu_data_cache['gpu_output'] = gpu_output (line 1356); the locals of
\* run_with_retry are gone and gpu_output is not read again
WorkerWriteGpu(w) ==
    /\ worker[w].pc = "write_gpu"
    /\ gpu_data_cache' =
         DictSet(gpu_data_cache, "gpu_output",
                 [pub |-> << w, worker[w].n >>, val |-> worker[w].res.gpu])
    /\ worker' = [worker EXCEPT ![w].pc = "write_proc", ![w].attempt = 0,
                                ![w].slept = 0, ![w].res.gpu = NoRes.gpu]
    /\ UNCHANGED << stop_update, main_vars >>

\* gpu_data_cache['proc_output'] = proc_output (line 1357)
WorkerWriteProc(w) ==
    /\ worker[w].pc = "write_proc"
    /\ gpu_data_cache' =
         DictSet(gpu_data_cache, "proc_output",
                 [pub |-> << w, worker[w].n >>, val |-> worker[w].res.proc])
    /\ worker' = [worker EXCEPT ![w].pc = "write_ts", ![w].res = NoRes]
    /\ UNCHANGED << stop_update, main_vars >>

\* line 1358, right-hand side: datetime.now() is called and returns
WorkerReadClock(w) ==
    /\ worker[w].pc = "write_ts"
    /\ worker' = [worker EXCEPT ![w].pc = "store_ts", ![w].ts = now]
    /\ UNCHANGED << stop_update, gpu_data_cache, main_vars >>

\* WorkerWriteTs, were the worker to append its timestamp to the history
WorkerWriteTs_AppendsHistory(w) ==
    /\ worker[w].pc = "store_ts"
    /\ gpu_data_cache' =
         DictSet(gpu_data_cache, "timestamp",
                 [pub |-> << w, worker[w].n >>, val |-> worker[w].ts])
    /\ worker' = [worker EXCEPT ![w].pc = "sleep", ![w].ts = 0,
                                ![w].left = config.refresh_rate \div SLEEP_SLICE_MS]
    /\ history_data' =
         [history_data EXCEPT
            !.time = DequeAppend(@, [tick |-> 0, v |-> Strftime(worker[w].ts)])]
    /\ UNCHANGED << stop_update, update_thread, last_alert_time, config, now,
                    mpc, ug, timers, nticks, nrefresh, alert_log, call,
                    static_cache >>

\* line 1358, the store: gpu_data_cache['timestamp'] = <the value read>,
\* then the for loop of line 1362 evaluates its range
WorkerWriteTs(w) ==
    /\ worker[w].pc = "store_ts"
    /\ gpu_data_cache' =
         DictSet(gpu_data_cache, "timestamp",
                 [pub |-> << w, worker[w].n >>, val |-> worker[w].ts])
    /\ worker' = [worker EXCEPT ![w].pc = "sleep", ![w].ts = 0,
                                ![w].left = config.refresh_rate \div SLEEP_SLICE_MS]
    /\ UNCHANGED << stop_update, main_vars >>

\* WorkerSleep, were the sleep loop not to test the stop flag
WorkerSleep_NoStopCheck(w) ==
    /\ worker[w].pc = "sleep"
    /\ IF worker[w].left = 0
         THEN worker' = [worker EXCEPT ![w].pc = "loop", ![w].left = 0]
         ELSE worker' = [worker EXCEPT ![w].left = @ - 1]
    /\ UNCHANGED << stop_update, gpu_data_cache, main_vars >>

\* One iteration of the sleep loop (lines 1362-1365)
WorkerSleep(w) ==
    /\ worker[w].pc = "sleep"
    /\ IF worker[w].left = 0 \/ stop_update
         THEN worker' = [worker EXCEPT ![w].pc = "loop", ![w].left = 0]
         ELSE worker' = [worker EXCEPT ![w].left = @ - 1]
    /\ UNCHANGED << stop_update, gpu_data_cache, main_vars >>

\* The steps of thread w in a poll cycle whose fetch succeeds at once
WorkerRun(w) ==
    \/ WorkerFetchOk(w)
    \/ WorkerWriteGpu(w)
    \/ WorkerWriteProc(w)
    \/ WorkerReadClock(w)
    \/ WorkerWriteTs(w)
    \/ WorkerSleep(w)

\* Any step of thread w
WorkerOf(w) ==
    \/ WorkerLoop(w)
    \/ WorkerFetchFail(w)
    \/ WorkerRun(w)

WorkerStep == \E w \in Threads : WorkerOf(w)

(***************************************************************************)
(* The Tk main thread: callbacks run to completion, one at a time.         *)
(***************************************************************************)
worker_vars == << worker, gpu_data_cache >>

IsAlive(w) == w # 0 /\ worker[w].pc \notin {"none", "done"}

\* Inside the external tool call or the retry delay: the only places where
\* a worker can stay for a second without reaching a stop check.
InExternalCall(w) == w # 0 /\ worker[w].pc = "fetch"

\* start_background_update up to the call of update_gui (lines 1348-1369)
StartBackgroundUpdate ==
    /\ mpc = "sbu"
    /\ stop_update' = FALSE
    /\ update_thread' = update_thread + 1
    /\ worker' = [worker EXCEPT ![update_thread + 1].pc = "loop"]
    /\ mpc' = "ug_begin"
    /\ UNCHANGED << gpu_data_cache, history_data, last_alert_time, config, now,
                    ug, timers, nticks, nrefresh, alert_log, call,
                    static_cache >>

\* manual_refresh, line 934: the stop request
ManualRefresh ==
    /\ mpc = "idle"
    /\ nrefresh < MaxRefresh
    /\ Events < MaxEvents
    /\ stop_update' = TRUE
    /\ nrefresh' = nrefresh + 1
    /\ mpc' = "mr_join"
    /\ UNCHANGED << update_thread, worker_vars, history_data, last_alert_time,
                    config, now, ug, timers, nticks, alert_log, call,
                    static_cache >>

\* lines 935-937: the thread is not alive (any more), join returns
ManualRefreshJoined ==
    /\ mpc = "mr_join"
    /\ ~IsAlive(update_thread)
    /\ stop_update' = FALSE
    /\ mpc' = "sbu"
    /\ UNCHANGED << update_thread, worker_vars, history_data, last_alert_time,
                    config, now, ug, timers, nticks, nrefresh, alert_log,
                    call, static_cache >>

\* ManualRefreshJoinTimeout, were the join to have no timeout
ManualRefreshJoinTimeout_Never ==
    /\ mpc = "mr_join"
    /\ FALSE
    /\ UNCHANGED vars

\* lines 935-937: join(timeout=1) gives up on a worker that is still alive
ManualRefreshJoinTimeout ==
    /\ mpc = "mr_join"
    /\ InExternalCall(update_thread)
    /\ stop_update' = FALSE
    /\ mpc' = "sbu"
    /\ UNCHANGED << update_thread, worker_vars, history_data, last_alert_time,
                    config, now, ug, timers, nticks, nrefresh, alert_log,
                    call, static_cache >>

\* A pending root.after callback of update_gui comes due
TimerFireUpTo(bound) ==
    /\ mpc = "idle"
    /\ timers > 0
    /\ nticks < bound
    /\ timers' = timers - 1
    /\ mpc' = "ug_begin"
    /\ UNCHANGED << stop_update, update_thread, worker_vars, history_data,
                    last_alert_time, config, now, ug, nticks, nrefresh, alert_log,
                    call, static_cache >>

TimerFire == TimerFireUpTo(MaxEvents - Published - nrefresh)

\* update_gui, lines 1372-1384: the early returns and the first mailbox read
UpdateGuiBegin ==
    /\ mpc = "ug_begin"
    /\ IF stop_update
         THEN /\ mpc' = "idle"
              /\ UNCHANGED << ug, timers >>
         ELSE IF "error" \in DOMAIN gpu_data_cache
                   \/ "gpu_output" \notin DOMAIN gpu_data_cache
           THEN /\ mpc' = "idle"
                /\ timers' = timers + 1
                /\ UNCHANGED ug
           ELSE /\ mpc' = "ug_read_proc"
                /\ ug' = [NoLocals EXCEPT !.gpu = gpu_data_cache["gpu_output"]]
                /\ UNCHANGED timers
    /\ UNCHANGED << stop_update, update_thread, worker_vars, history_data,
                    last_alert_time, config, now, nticks, nrefresh, alert_log,
                    static_cache >>

\* line 1385
UpdateGuiReadProc ==
    /\ mpc = "ug_read_proc"
    /\ ug' = [ug EXCEPT !.proc = DictGet(gpu_data_cache, "proc_output",
                                         [pub |-> NoPub, val |-> << >>])]
    /\ mpc' = "ug_read_ts"
    /\ UNCHANGED << stop_update, update_thread, worker_vars, history_data,
                    last_alert_time, config, now, timers, nticks, nrefresh,
                    alert_log, static_cache >>

\* line 1386
UpdateGuiReadTs ==
    /\ mpc = "ug_read_ts"
    /\ ug' = [ug EXCEPT !.ts = DictGet(gpu_data_cache, "timestamp",
                                       [pub |-> NoPub, val |-> now])]
    /\ mpc' = "ug_app_time"
    /\ UNCHANGED << stop_update, update_thread, worker_vars, history_data,
                    last_alert_time, config, now, timers, nticks, nrefresh,
                    alert_log, static_cache >>

Metrics == parse_gpu_metrics(ug.gpu.val.parts)

\* What neither the clock nor check_alerts nor the alert dialog touches
alert_frame ==
    << stop_update, update_thread, worker, gpu_data_cache, history_data, mpc,
       ug, timers, nticks, nrefresh, call, static_cache >>

ug_frame ==
    << stop_update, update_thread, worker_vars, last_alert_time, config, now,
       nrefresh, alert_log, static_cache >>

\* UpdateGuiAppendTime, were an error observation to end the tick chain
UpdateGuiAppendTime_NoReschedule ==
    /\ mpc = "ug_app_time"
    /\ IF StartsWithError(ug.gpu.val)
         THEN /\ mpc' = "idle"
              /\ ug' = NoLocals
              /\ UNCHANGED << history_data, nticks, timers >>
         ELSE /\ mpc' = "ug_app_rest"
              /\ nticks' = nticks + 1
              /\ ug' = [ug EXCEPT !.tick = nticks + 1]
              /\ history_data' =
                   [history_data EXCEPT
                      !.time = DequeAppend(@, [tick |-> nticks + 1,
                                               v |-> Strftime(ug.ts.val)])]
              /\ UNCHANGED timers
    /\ UNCHANGED ug_frame

\* lines 1388-1397: an error observation ends the tick, else the first append
UpdateGuiAppendTime ==
    /\ mpc = "ug_app_time"
    /\ IF StartsWithError(ug.gpu.val)
         THEN /\ mpc' = "idle"
              /\ timers' = timers + 1
              /\ ug' = NoLocals
              /\ UNCHANGED << history_data, nticks >>
         ELSE /\ mpc' = "ug_app_rest"
              /\ nticks' = nticks + 1
              /\ ug' = [ug EXCEPT !.tick = nticks + 1]
              /\ history_data' =
                   [history_data EXCEPT
                      !.time = DequeAppend(@, [tick |-> nticks + 1,
                                               v |-> Strftime(ug.ts.val)])]
              /\ UNCHANGED timers
    /\ UNCHANGED ug_frame

\* UpdateGuiAppendRest, were the append to the power series missing
UpdateGuiAppendRest_NoPower ==
    /\ mpc = "ug_app_rest"
    /\ history_data' =
         [history_data EXCEPT
            !.utilization =
               DequeAppend(@, [tick |-> ug.tick,
                               v |-> MetricsGet(Metrics, "utilization", 0)]),
            !.temperature =
               DequeAppend(@, [tick |-> ug.tick,
                               v |-> MetricsGet(Metrics, "temperature", 0)]),
            !.memory =
               DequeAppend(@, [tick |-> ug.tick,
                               v |-> MemPercent(MetricsGet(Metrics, "mem_used", 0),
                                                MetricsGet(Metrics, "mem_total", Scale))])]
    /\ mpc' = "ug_alerts"
    /\ UNCHANGED << ug_frame, ug, timers, nticks >>

\* lines 1398-1404: the other four appends
UpdateGuiAppendRest ==
    /\ mpc = "ug_app_rest"
    /\ history_data' =
         [history_data EXCEPT
            !.utilization =
               DequeAppend(@, [tick |-> ug.tick,
                               v |-> MetricsGet(Metrics, "utilization", 0)]),
            !.temperature =
               DequeAppend(@, [tick |-> ug.tick,
                               v |-> MetricsGet(Metrics, "temperature", 0)]),
            !.power =
               DequeAppend(@, [tick |-> ug.tick,
                               v |-> MetricsGet(Metrics, "power_draw", 0)]),
            !.memory =
               DequeAppend(@, [tick |-> ug.tick,
                               v |-> MemPercent(MetricsGet(Metrics, "mem_used", 0),
                                                MetricsGet(Metrics, "mem_total", Scale))])]
    /\ mpc' = "ug_alerts"
    /\ UNCHANGED << ug_frame, ug, timers, nticks >>

\* The state change of one check_alerts(metrics, config) call
CheckAlertsEffect(metrics) ==
    LET r == check_alerts(last_alert_time, metrics, config, now)
    IN  /\ last_alert_time' = r.last
        /\ alert_log' =
             [called |-> TRUE, time |-> now, enabled |-> config.alert_enabled,
              temp |-> MetricsGet(metrics, "temperature", 0),
              util |-> MetricsGet(metrics, "utilization", 0),
              alert_temp |-> config.alert_temp, alert_util |-> config.alert_util,
              before |-> last_alert_time, shown |-> r.shown]

\* lines 1406-1466: check_alerts, the widgets, and the next tick is scheduled
UpdateGuiAlerts ==
    /\ mpc = "ug_alerts"
    /\ CheckAlertsEffect(Metrics)
    /\ timers' = timers + 1
    /\ ug' = NoLocals
    /\ mpc' = "idle"
    /\ UNCHANGED << stop_update, update_thread, worker_vars, history_data,
                    config, now, nticks, nrefresh, static_cache >>

\* on_closing: the stop flag is set and the window destroyed
OnClosing ==
    /\ mpc = "idle"
    /\ stop_update' = TRUE
    /\ timers' = 0
    /\ mpc' = "closed"
    /\ UNCHANGED << update_thread, worker_vars, history_data, last_alert_time,
                    config, now, ug, nticks, nrefresh, alert_log,
                    call, static_cache >>

\* One step of update_gui; the six steps above say nothing about call
UpdateGuiStep ==
    \/ UpdateGuiBegin /\ UNCHANGED call
    \/ UpdateGuiReadProc /\ UNCHANGED call
    \/ UpdateGuiReadTs /\ UNCHANGED call
    \/ UpdateGuiAppendTime /\ UNCHANGED call
    \/ UpdateGuiAppendRest /\ UNCHANGED call
    \/ UpdateGuiAlerts /\ UNCHANGED call

Next ==
    \/ WorkerStep
    \/ StartBackgroundUpdate
    \/ ManualRefresh
    \/ ManualRefreshJoined
    \/ ManualRefreshJoinTimeout
    \/ TimerFire
    \/ UpdateGuiStep
    \/ OnClosing

Spec == Init /\ [][Next]_vars

\* Spec with every started thread scheduled again and again, the tool
\* returning from every call
SpecFair == Spec /\ \A w \in Threads : WF_vars(WorkerOf(w))

\* The steps of thread w that do not wait for the external tool
WorkerLocal(w) ==
    \/ WorkerLoop(w)
    \/ WorkerWriteGpu(w)
    \/ WorkerWriteProc(w)
    \/ WorkerReadClock(w)
    \/ WorkerWriteTs(w)
    \/ WorkerSleep(w)

\* Spec with the main thread running manual_refresh to its end and every
\* thread scheduled again and again, while a call of the tool may never
\* return
SpecHang ==
    /\ Spec
    /\ WF_vars(ManualRefreshJoined)
    /\ WF_vars(ManualRefreshJoinTimeout)
    /\ WF_vars(StartBackgroundUpdate)
    /\ \A w \in Threads : WF_vars(WorkerLocal(w))

(***************************************************************************)
(* SpecHistory: the consumer loop alone, from the state in which the       *)
(* worker has published once and sleeps; the history fills past its        *)
(* capacity.                                                               *)
(***************************************************************************)
MaxAppends == HISTORY_SIZE + ExtraAppends

HistoryLines == {LineHot, LineCool, LineBad}

Publication(w, n, line, t) ==
    [k \in {"gpu_output", "proc_output", "timestamp"} |->
        [pub |-> << w, n >>,
         val |-> IF k = "gpu_output" THEN OkOutput(line)
                 ELSE IF k = "proc_output" THEN ProcBlock
                 ELSE t]]

InitHistory ==
    /\ stop_update = FALSE
    /\ update_thread = 1
    /\ worker = [w \in Threads |->
                   IF w = 1
                     THEN [IdleWorker EXCEPT !.pc = "sleep", !.n = 1,
                             !.left = InitRefreshRate \div SLEEP_SLICE_MS]
                     ELSE IdleWorker]
    /\ \E line \in HistoryLines :
         gpu_data_cache = Publication(1, 1, line, BootTime)
    /\ history_data = EmptyHistory
    /\ last_alert_time = EmptyDict
    /\ config \in InitConfigs
    /\ now = BootTime
    /\ mpc = "idle"
    /\ ug = NoLocals
    /\ timers = 1
    /\ nticks = 0
    /\ nrefresh = 0
    /\ alert_log = NoAlertLog
    /\ call = NoCall
    /\ static_cache = EmptyDict

TimerFireHistory == TimerFireUpTo(MaxAppends)

NextHistory ==
    \/ TimerFireHistory
    \/ UpdateGuiStep

SpecHistory == InitHistory /\ [][NextHistory]_vars

(***************************************************************************)
(* SpecAlert: check_alerts called at any time, with any metrics, between   *)
(* clock advances and alert-settings changes.                              *)
(***************************************************************************)
ClockSteps == {100, 201, 300}

AlertLines == {LineCool, LineHot, LineHotIdle, LineBad}

\* What the user can type into the two entries of the alert dialog
EntryTexts == {Dec(95, 0), Junk}

\* int(text): an integer literal, anything else raises ValueError
IntParses(tok) == tok.kind = "num" /\ tok.val % Scale = 0

IntOf(tok) == tok.val \div Scale

InitAlert ==
    /\ stop_update = FALSE
    /\ update_thread = 0
    /\ worker = [w \in Threads |-> IdleWorker]
    /\ gpu_data_cache = EmptyDict
    /\ history_data = EmptyHistory
    /\ last_alert_time = EmptyDict
    /\ config = DefaultConfig
    /\ now = 0
    /\ mpc = "sbu"
    /\ ug = NoLocals
    /\ timers = 0
    /\ nticks = 0
    /\ nrefresh = 0
    /\ alert_log = NoAlertLog
    /\ call = NoCall
    /\ static_cache = EmptyDict

\* The wall clock moves on (time.time() never goes back here)
AdvanceClock ==
    /\ \E d \in ClockSteps :
         /\ now + d <= MaxTime
         /\ now' = now + d
    /\ UNCHANGED << alert_frame, last_alert_time, config, alert_log >>

\* check_alerts(metrics, self.config) on the metrics of one output line
CheckAlertsCall ==
    /\ \E line \in AlertLines : CheckAlertsEffect(parse_gpu_metrics(line))
    /\ UNCHANGED << alert_frame, config, now >>

\* apply of alert_settings (lines 884-893): the assignments made before an
\* int() raises stay made
AlertSettingsApply ==
    /\ \E te \in EntryTexts, ue \in EntryTexts, en \in BOOLEAN :
         config' =
           IF ~IntParses(te) THEN config
           ELSE IF ~IntParses(ue) THEN [config EXCEPT !.alert_temp = IntOf(te)]
           ELSE [config EXCEPT !.alert_temp = IntOf(te),
                               !.alert_util = IntOf(ue),
                               !.alert_enabled = en]
    /\ UNCHANGED << alert_frame, last_alert_time, now, alert_log >>

NextAlert ==
    \/ AdvanceClock
    \/ CheckAlertsCall
    \/ AlertSettingsApply

SpecAlert == InitAlert /\ [][NextAlert]_vars

(***************************************************************************)
(* SpecStamp: the worker and the consumer from start-up under a moving     *)
(* clock.  The tool answers every call here and nobody asks for a refresh. *)
(***************************************************************************)
WorkerStepStamp ==
    \E w \in Threads :
        \/ WorkerLoop(w)
        \/ WorkerRun(w)

\* A second of wall-clock time passes
ClockTick ==
    /\ now < BootTime + StampSeconds
    /\ now' = now + 1
    /\ UNCHANGED << alert_frame, last_alert_time, config, alert_log >>

NextStamp ==
    \/ WorkerStepStamp
    \/ StartBackgroundUpdate
    \/ TimerFire
    \/ UpdateGuiStep
    \/ ClockTick

SpecStamp == Init /\ [][NextStamp]_vars

(***************************************************************************)
(* SpecParse: parse_gpu_metrics called on output lines of any length, with *)
(* up to two fields of a well-formed line replaced by an empty field, the  *)
(* [N/A] marker or other text.                                             *)
(***************************************************************************)
\* No thread started yet, nothing logged
InitCalls == InitAlert

\* "60, 3000, 8192, 85.5, 180.2, 250, 55, 1700, 7000"
LineWarm ==
    << Dec(60, 0), Dec(3000, 0), Dec(8192, 0), Dec(85, 5), Dec(180, 2),
       Dec(250, 0), Dec(55, 0), Dec(1700, 0), Dec(7000, 0) >>

GoodLines == {LineCool, LineWarm}

Keep == [kind |-> "keep", val |-> 0]

Replacements == {Keep, Empty, NA, Junk}

\* The first len fields of base (fields after the ninth read 0), with
\* fields i and j replaced
Mangled(base, len, i, bi, j, bj) ==
    [k \in 1..len |->
       IF k = i /\ bi # Keep THEN bi
       ELSE IF k = j /\ bj # Keep THEN bj
       ELSE IF k <= Len(base) THEN base[k]
       ELSE Dec(0, 0)]

ParseInputs ==
    {Mangled(base, len, i, bi, j, bj) :
        base \in GoodLines, len \in 1..MaxFields, i \in 1..MaxFields,
        bi \in Replacements, j \in 1..MaxFields, bj \in Replacements}

call_frame ==
    << stop_update, update_thread, worker, gpu_data_cache, history_data,
       last_alert_time, config, now, mpc, ug, timers, nticks, nrefresh,
       alert_log, static_cache >>

\* metrics = parse_gpu_metrics(gpu_output), the first call (the function
\* keeps no state, a later call is no different)
ParseGpuMetricsCall ==
    /\ call = NoCall
    /\ \E line \in ParseInputs :
         call' = [fn |-> "parse_gpu_metrics", arg |-> line,
                  res |-> parse_gpu_metrics(line)]
    /\ UNCHANGED call_frame

NextParse == ParseGpuMetricsCall

SpecParse == InitCalls /\ [][NextParse]_vars

(***************************************************************************)
(* SpecProc: parse_processes called on blocks of process lines.  A line is *)
(* the list of its comma-separated, stripped fields; a blank line has the  *)
(* one field "".                                                           *)
(***************************************************************************)
BlankLine == << "" >>

ProcessEntry(parts) == [pid |-> parts[1], name |-> parts[2], mem |-> parts[3]]

RECURSIVE ProcLoopLax(_, _)
ProcLoopLax(lines, processes) ==
    IF lines = << >> THEN processes
    ELSE LET parts == Head(lines)
         IN  IF parts = BlankLine THEN ProcLoopLax(Tail(lines), processes)
             ELSE IF Len(parts) >= 3
               THEN ProcLoopLax(Tail(lines),
                                Append(processes, ProcessEntry(parts)))
             ELSE ProcLoopLax(Tail(lines), processes)

\* parse_processes, were a line of more than three fields kept as well
parse_processes_AtLeastThree(proc_output) == ProcLoopLax(proc_output, << >>)

\* for line in proc_output.splitlines() (lines 482-492)
RECURSIVE ProcLoop(_, _)
ProcLoop(lines, processes) ==
    IF lines = << >> THEN processes
    ELSE LET parts == Head(lines)
         IN  IF parts = BlankLine THEN ProcLoop(Tail(lines), processes)
             ELSE IF Len(parts) = 3
               THEN ProcLoop(Tail(lines), Append(processes, ProcessEntry(parts)))
             ELSE ProcLoop(Tail(lines), processes)

parse_processes(proc_output) == ProcLoop(proc_output, << >>)

\* "", "4242, python, 512", "17, /usr/bin/X, 64", "17, truncated",
\* "99, a,b, 12", ", ," and "garbage"
ProcLines ==
    { BlankLine,
      << "4242", "python", "512" >>,
      << "17", "/usr/bin/X", "64" >>,
      << "17", "truncated" >>,
      << "99", "a", "b", "12" >>,
      << "", "", "" >>,
      << "garbage" >> }

RECURSIVE BlocksOf(_)
BlocksOf(n) ==
    IF n = 0 THEN {<< >>}
    ELSE BlocksOf(n - 1)
           \cup {Append(b, l) : b \in {x \in BlocksOf(n - 1) : Len(x) = n - 1},
                                l \in ProcLines}

ProcInputs == BlocksOf(MaxProcLines)

\* processes = parse_processes(proc_output), the first call
ParseProcessesCall ==
    /\ call = NoCall
    /\ \E block \in ProcInputs :
         call' = [fn |-> "parse_processes", arg |-> block,
                  res |-> parse_processes(block)]
    /\ UNCHANGED call_frame

NextProc == ParseProcessesCall

SpecProc == InitCalls /\ [][NextProc]_vars

(***************************************************************************)
(* SpecPower: apply_limit of the power-limit window, with the bounds the   *)
(* window read from get_power_limits when it was opened.                   *)
(***************************************************************************)
None == [known |-> FALSE, val |-> 0]

Known(x) == [known |-> TRUE, val |-> x]

\* set_power_limit, were a failed command run a second time
set_power_limit_Retry(new_limit, tool) ==
    IF tool = "ok" THEN [ok |-> TRUE, commands |-> 1]
    ELSE [ok |-> FALSE, commands |-> 2]

\* set_power_limit(new_limit): one nvidia-smi -pl command; tool is what the
\* command does (it succeeds, exits non-zero, or cannot be started)
set_power_limit(new_limit, tool) ==
    IF tool = "ok" THEN [ok |-> TRUE, commands |-> 1]
    ELSE [ok |-> FALSE, commands |-> 1]

\* apply_limit (lines 617-633): the message shown and the number of
\* power-limit commands run
apply_limit(text, min_, max_, tool) ==
    IF text.kind # "num"
      THEN [msg |-> "Invalid input", commands |-> 0]
    ELSE LET val == text.val
         IN  IF min_.known /\ max_.known /\ (val < min_.val \/ val > max_.val)
               THEN [msg |-> "Value must be between", commands |-> 0]
             ELSE LET r == set_power_limit(val, tool)
                  IN  [msg |-> IF r.ok THEN "applied" ELSE "Failed",
                       commands |-> r.commands]

\* The (min, max) that get_power_limits can return: a limit missing from
\* the tool's answer stays None
MinLimits == {None, Known(100 * Scale), Known(150 * Scale)}

MaxLimits == {None, Known(300 * Scale)}

\* What the user can type into the entry of the power-limit window
LimitTexts ==
    {Dec(50, 0), Dec(99, 9), Dec(100, 0), Dec(250, 0), Dec(300, 0),
     Dec(300, 1), Dec(350, 0), Empty, Junk}

ToolResults == {"ok", "CalledProcessError", "FileNotFoundError"}

\* The Apply Changes button, the first time
ApplyLimitCall ==
    /\ call = NoCall
    /\ \E text \in LimitTexts, min_ \in MinLimits, max_ \in MaxLimits,
          tool \in ToolResults :
         call' = [fn |-> "apply_limit",
                  arg |-> [text |-> text, min_ |-> min_, max_ |-> max_,
                           tool |-> tool],
                  res |-> apply_limit(text, min_, max_, tool)]
    /\ UNCHANGED call_frame

NextPower == ApplyLimitCall

SpecPower == InitCalls /\ [][NextPower]_vars

(***************************************************************************)
(* SpecCache: the static cache under reads of the device name, reads of    *)
(* the power limits and power-limit writes, in any order.                  *)
(***************************************************************************)
\* (cur, min_, max_) as fetch returns it: a label missing from the tool's
\* answer leaves its value None
Limits(cur, min_, max_) == << cur, min_, max_ >>

NoLimits == Limits(None, None, None)

PowerAnswers ==
    { Limits(Known(250 * Scale), Known(100 * Scale), Known(300 * Scale)),
      Limits(Known(200 * Scale), None, Known(300 * Scale)),
      NoLimits }

\* What run_with_retry(fetch) meets: an answer at some attempt, or an
\* exception at every attempt
QueryResults ==
    [ok : {TRUE}, attempts : 1..RETRIES, out : PowerAnswers]
      \cup {[ok |-> FALSE, attempts |-> RETRIES, out |-> NoLimits]}

\* get_power_limits, were it to ask the tool every time
get_power_limits_NoCache(cache, tool) ==
    IF tool.ok
      THEN [ret |-> tool.out, cache |-> DictSet(cache, "power_limits", tool.out),
            invocations |-> tool.attempts]
      ELSE [ret |-> NoLimits, cache |-> cache, invocations |-> tool.attempts]

\* get_power_limits (lines 398-424): the triple returned, the cache it
\* leaves and the number of tool invocations
get_power_limits(cache, tool) ==
    IF "power_limits" \in DOMAIN cache
      THEN [ret |-> cache["power_limits"], cache |-> cache, invocations |-> 0]
    ELSE IF tool.ok
      THEN [ret |-> tool.out, cache |-> DictSet(cache, "power_limits", tool.out),
            invocations |-> tool.attempts]
    ELSE [ret |-> NoLimits, cache |-> cache, invocations |-> tool.attempts]

GpuNames == {"NVIDIA GeForce RTX 3080"}

\* get_gpu_info (lines 382-396): the name is cached once the tool gave it
get_gpu_info(cache, tool) ==
    IF "gpu_name" \in DOMAIN cache THEN cache
    ELSE IF tool.ok THEN DictSet(cache, "gpu_name", tool.out)
    ELSE cache

\* PopPowerLimits, were the whole cache dropped
PopPowerLimits_Clear(cache) == EmptyDict

\* static_cache.pop('power_limits', None) (line 438)
PopPowerLimits(cache) == DictPop(cache, "power_limits")

cache_frame ==
    << stop_update, update_thread, worker, gpu_data_cache, history_data,
       last_alert_time, config, now, mpc, ug, timers, nticks, nrefresh,
       alert_log >>

GetGpuInfoCall ==
    /\ \E tool \in [ok : {TRUE}, out : GpuNames] \cup {[ok |-> FALSE, out |-> ""]} :
         /\ static_cache' = get_gpu_info(static_cache, tool)
         /\ call' = [fn |-> "get_gpu_info", arg |-> tool,
                      res |-> [before |-> static_cache,
                               after |-> get_gpu_info(static_cache, tool)]]
    /\ UNCHANGED cache_frame

GetPowerLimitsCall ==
    /\ \E tool \in QueryResults :
         LET r == get_power_limits(static_cache, tool)
         IN  /\ static_cache' = r.cache
             /\ call' = [fn |-> "get_power_limits", arg |-> tool,
                          res |-> [before |-> static_cache, after |-> r.cache,
                                   ret |-> r.ret,
                                   invocations |-> r.invocations]]
    /\ UNCHANGED cache_frame

\* set_power_limit(new_limit) (lines 426-443) with its effect on the cache
SetPowerLimitCall ==
    /\ \E text \in {Dec(250, 0)}, tool \in ToolResults :
         LET r == set_power_limit(text.val, tool)
             after == IF r.ok THEN PopPowerLimits(static_cache) ELSE static_cache
         IN  /\ static_cache' = after
             /\ call' = [fn |-> "set_power_limit", arg |-> tool,
                          res |-> [before |-> static_cache, after |-> after,
                                   ok |-> r.ok]]
    /\ UNCHANGED cache_frame

NextCache ==
    \/ GetGpuInfoCall
    \/ GetPowerLimitsCall
    \/ SetPowerLimitCall

SpecCache == InitCalls /\ [][NextCache]_vars

(***************************************************************************)
(* SpecExport: SpecStamp with the two export commands of the File menu,    *)
(* which Tk runs between two callbacks of the main thread.                 *)
(***************************************************************************)
\* str(x) as csv.writer and json.dump write a number, and the clock string
NumText(v) == Num(v)

TimeText(t) == [kind |-> "time", val |-> t]

CsvHeader ==
    << "Timestamp", "Utilization (%)", "Temperature (C)", "Power (W)",
       "Memory (%)" >>

\* export_to_csv, were the last sample left out
export_to_csv_DropsLast(h) ==
    [ok |-> TRUE,
     header |-> CsvHeader,
     rows |-> [i \in 1..(Len(h.time) - 1) |->
                 << TimeText(h.time[i].v), NumText(h.utilization[i].v),
                    NumText(h.temperature[i].v), NumText(h.power[i].v),
                    NumText(h.memory[i].v) >>]]

\* export_to_csv (lines 308-324): the file written for the history h
export_to_csv(h) ==
    [ok |-> TRUE,
     header |-> CsvHeader,
     rows |-> [i \in 1..Len(h.time) |->
                 << TimeText(h.time[i].v), NumText(h.utilization[i].v),
                    NumText(h.temperature[i].v), NumText(h.power[i].v),
                    NumText(h.memory[i].v) >>]]

\* export_to_json (lines 326-345)
export_to_json(h, cache, t) ==
    [ok |-> TRUE,
     export_time |-> t,
     gpu_name |-> DictGet(cache, "gpu_name", "Unknown"),
     data |-> [i \in 1..Len(h.time) |->
                 [timestamp |-> TimeText(h.time[i].v),
                  utilization |-> NumText(h.utilization[i].v),
                  temperature |-> NumText(h.temperature[i].v),
                  power |-> NumText(h.power[i].v),
                  memory |-> NumText(h.memory[i].v)]]]

export_frame ==
    << stop_update, update_thread, worker, gpu_data_cache, last_alert_time,
       config, now, mpc, ug, timers, nticks, nrefresh, alert_log,
       static_cache >>

\* File > Export to CSV (lines 897-904)
ExportCsv ==
    /\ mpc = "idle"
    /\ call' = [fn |-> "export_to_csv", arg |-> history_data,
                 res |-> export_to_csv(history_data)]
    /\ history_data' = history_data
    /\ UNCHANGED export_frame

\* File > Export to JSON (lines 906-913)
ExportJson ==
    /\ mpc = "idle"
    /\ call' = [fn |-> "export_to_json", arg |-> history_data,
                 res |-> export_to_json(history_data, static_cache, now)]
    /\ history_data' = history_data
    /\ UNCHANGED export_frame

NextExport ==
    \/ NextStamp
    \/ ExportCsv
    \/ ExportJson

SpecExport == Init /\ [][NextExport]_vars

(***************************************************************************)
(* SpecConfig: the config as load_config returns it and as the two         *)
(* settings dialogs change it.                                             *)
(***************************************************************************)
\* The config file: missing, unreadable as JSON, or a JSON object
NoFile == [exists |-> FALSE, valid |-> FALSE, content |-> EmptyDict]

CorruptFile == [exists |-> TRUE, valid |-> FALSE, content |-> EmptyDict]

JsonFile(d) == [exists |-> TRUE, valid |-> TRUE, content |-> d]

ConfigFiles ==
    {NoFile, CorruptFile, JsonFile(EmptyDict),
     JsonFile(DictSet(EmptyDict, "refresh_rate", 100)),
     JsonFile(DictSet(EmptyDict, "refresh_rate", 5000)),
     JsonFile(DictSet(EmptyDict, "refresh_rate", 100000)),
     JsonFile(DictSet(EmptyDict, "alert_enabled", FALSE))}

\* load_config (lines 123-143): default_config.update(json.load(f))
load_config(file) ==
    IF file.exists /\ file.valid
    THEN [k \in DOMAIN DefaultConfig |->
            DictGet(file.content, k, DefaultConfig[k])]
    ELSE DefaultConfig

\* Texts of the refresh-rate entry, in seconds
RateTexts ==
    {Dec(0, 4), Dec(0, 5), Dec(1, 5), Dec(60, 0), Dec(60, 1), Junk, Empty}

\* apply of adjust_refresh_rate (lines 846-857)
adjust_refresh_rate_apply(cfg, text) ==
    IF text.kind # "num" THEN [accepted |-> FALSE, config |-> cfg]
    ELSE IF text.val * 2 < Scale \/ text.val > 60 * Scale
         THEN [accepted |-> FALSE, config |-> cfg]
    ELSE [accepted |-> TRUE,
          config |-> [cfg EXCEPT !.refresh_rate = (text.val * 1000) \div Scale]]

\* apply of alert_settings (lines 884-893), with what it reports
alert_settings_apply(cfg, te, ue, en) ==
    IF ~IntParses(te) THEN [accepted |-> FALSE, config |-> cfg]
    ELSE IF ~IntParses(ue)
         THEN [accepted |-> FALSE,
               config |-> [cfg EXCEPT !.alert_temp = IntOf(te)]]
    ELSE [accepted |-> TRUE,
          config |-> [cfg EXCEPT !.alert_temp = IntOf(te),
                                 !.alert_util = IntOf(ue),
                                 !.alert_enabled = en]]

InitConfig ==
    /\ stop_update = FALSE
    /\ update_thread = 0
    /\ worker = [w \in Threads |-> IdleWorker]
    /\ gpu_data_cache = EmptyDict
    /\ history_data = EmptyHistory
    /\ last_alert_time = EmptyDict
    /\ config \in {load_config(file) : file \in ConfigFiles}
    /\ now = 0
    /\ mpc = "sbu"
    /\ ug = NoLocals
    /\ timers = 0
    /\ nticks = 0
    /\ nrefresh = 0
    /\ alert_log = NoAlertLog
    /\ call = NoCall
    /\ static_cache = EmptyDict

config_frame ==
    << stop_update, update_thread, worker, gpu_data_cache, history_data,
       last_alert_time, now, mpc, ug, timers, nticks, nrefresh, alert_log,
       static_cache >>

AdjustRefreshRateApply ==
    /\ \E text \in RateTexts :
         LET r == adjust_refresh_rate_apply(config, text)
         IN /\ config' = r.config
            /\ call' = [fn |-> "adjust_refresh_rate.apply", arg |-> << text >>,
                        res |-> [accepted |-> r.accepted, before |-> config,
                                 after |-> r.config]]
    /\ UNCHANGED config_frame

AlertSettingsApplyCall ==
    /\ \E te \in EntryTexts, ue \in EntryTexts, en \in BOOLEAN :
         LET r == alert_settings_apply(config, te, ue, en)
         IN /\ config' = r.config
            /\ call' = [fn |-> "alert_settings.apply", arg |-> << te, ue, en >>,
                        res |-> [accepted |-> r.accepted, before |-> config,
                                 after |-> r.config]]
    /\ UNCHANGED config_frame

NextConfig ==
    \/ AdjustRefreshRateApply
    \/ AlertSettingsApplyCall

SpecConfig == InitConfig /\ [][NextConfig]_vars

(***************************************************************************)
(* SpecTick: Spec with the way each update_gui tick ended kept in call:    *)
(* the branch it returned from, the publication it had read and the delay  *)
(* of the root.after it made.                                              *)
(***************************************************************************)
\* RescheduleDelay, were every branch to wait the configured interval
RescheduleDelay_AlwaysConfigured(kind) ==
    IF kind = "stopped" THEN 0 ELSE config.refresh_rate

\* The delay (ms) of root.after by the branch update_gui returns from
\* (lines 1377, 1381, 1391, 1466); the stop_update return makes none
RescheduleDelay(kind) ==
    CASE kind = "no observation" -> 500
      [] kind = "error key" -> 3000
      [] kind = "error" -> 3000
      [] kind = "processed" -> config.refresh_rate
      [] OTHER -> 0

TickEnd(kind, pub) ==
    [fn |-> "update_gui", arg |-> pub,
     res |-> [kind |-> kind, delay |-> RescheduleDelay(kind)]]

\* The branch of lines 1372-1382 a tick returns from
EarlyReturn ==
    IF stop_update THEN "stopped"
    ELSE IF "error" \in DOMAIN gpu_data_cache THEN "error key"
    ELSE "no observation"

UpdateGuiTick ==
    \/ /\ UpdateGuiBegin
       /\ call' = IF mpc' = "idle" THEN TickEnd(EarlyReturn, NoPub) ELSE call
    \/ UpdateGuiReadProc /\ UNCHANGED call
    \/ UpdateGuiReadTs /\ UNCHANGED call
    \/ /\ UpdateGuiAppendTime
       /\ call' = IF mpc' = "idle" THEN TickEnd("error", ug.gpu.pub) ELSE call
    \/ UpdateGuiAppendRest /\ UNCHANGED call
    \/ /\ UpdateGuiAlerts
       /\ call' = TickEnd("processed", ug.gpu.pub)

NextTick ==
    \/ WorkerStep
    \/ StartBackgroundUpdate
    \/ ManualRefresh
    \/ ManualRefreshJoined
    \/ ManualRefreshJoinTimeout
    \/ TimerFire
    \/ UpdateGuiTick
    \/ OnClosing

SpecTick == Init /\ [][NextTick]_vars

(***************************************************************************)
(* Claims                                                                  *)
(***************************************************************************)
WritePcs == {"write_gpu", "write_proc", "store_ts"}

\* Thread w performs one of its three mailbox writes in this step
Wrote(w) == worker[w].pc \in WritePcs /\ worker'[w].pc # worker[w].pc

\* C1: once manual_refresh has started a new worker, no worker started
\* before it writes to the mailbox any more: every mailbox write is made by
\* the thread update_thread names.
C1_NoStaleWrite == [][\A w \in Threads : Wrote(w) => w = update_thread]_vars

InLoop(w) == worker[w].pc \notin {"none", "done"}

\* C2: at most one background worker is inside its polling loop.
C2_OneWorker == Cardinality({w \in Threads : InLoop(w)}) <= 1

\* C3: the (gpu_output, proc_output, timestamp) triple a tick has read is
\* the triple of one single publish.
C3_WholeTriple ==
    mpc = "ug_app_time" => ug.gpu.pub = ug.proc.pub /\ ug.proc.pub = ug.ts.pub

Series == {"time", "utilization", "temperature", "power", "memory"}

\* Tk runs one callback at a time: the history can be observed (by a tick,
\* an export, the graph refresh) whenever the main thread is not between
\* the appends of a running update_gui.
Observable == mpc # "ug_app_rest"

\* C4: whenever the history can be observed the five series have the same
\* length, and the entries at each index stem from the same tick.
C4_HistoryAligned ==
    Observable =>
      \A s \in Series :
        /\ Len(history_data[s]) = Len(history_data.time)
        /\ \A i \in 1..Len(history_data.time) :
             history_data[s][i].tick = history_data.time[i].tick

\* The samples of two ticks are in the history, the main thread is back in
\* the event loop and the worker is alive.
C4_Witness ==
    /\ mpc = "idle"
    /\ Len(history_data.memory) >= 2
    /\ history_data.memory[1].tick # history_data.memory[2].tick
    /\ InLoop(update_thread)

Min(a, b) == IF a <= b THEN a ELSE b

\* What the tick with the mailbox content of InitHistory appends to a series
SampleOf(s) ==
    LET m == parse_gpu_metrics(gpu_data_cache["gpu_output"].val.parts)
    IN  IF s = "time" THEN Strftime(gpu_data_cache["timestamp"].val)
        ELSE IF s = "utilization" THEN MetricsGet(m, "utilization", 0)
        ELSE IF s = "temperature" THEN MetricsGet(m, "temperature", 0)
        ELSE IF s = "power" THEN MetricsGet(m, "power_draw", 0)
        ELSE MemPercent(MetricsGet(m, "mem_used", 0), MetricsGet(m, "mem_total", Scale))

\* C5: after M appends every series holds exactly the last
\* min(M, HISTORY_SIZE) samples, in append order.
C5_LastSamples ==
    mpc = "idle" =>
      LET L == Min(nticks, HISTORY_SIZE)
      IN  \A s \in Series :
            /\ Len(history_data[s]) = L
            /\ \A i \in 1..L :
                 history_data[s][i] = [tick |-> nticks - L + i, v |-> SampleOf(s)]

\* More samples were appended than the history holds
C5_Witness ==
    /\ mpc = "idle"
    /\ nticks > HISTORY_SIZE
    /\ history_data.time[1].tick = nticks - HISTORY_SIZE + 1

Kinds == {"temp", "util"}

Shown(k) == \E i \in 1..Len(alert_log.shown) : alert_log.shown[i] = k

LogMetric(k) == IF k = "temp" THEN alert_log.temp ELSE alert_log.util

LogThreshold(k) == IF k = "temp" THEN alert_log.alert_temp ELSE alert_log.alert_util

AtOrAbove(k) == LogMetric(k) >= LogThreshold(k) * Scale

\* C6 as claimed, for a kind that has fired before (C8 is about the first
\* firing): with alerts enabled the kind fires exactly when its metric is at
\* or above the threshold and at least 300 seconds have passed since it
\* last fired, so also exactly 300 seconds after.
C6_FiresAtLeast300 ==
    (alert_log.called /\ alert_log.enabled) =>
      \A k \in DOMAIN alert_log.before :
        Shown(k) <=>
          /\ AtOrAbove(k)
          /\ alert_log.time - alert_log.before[k] >= ALERT_COOLDOWN

\* C6 amended: with alerts enabled a kind fires exactly when its metric is
\* at or above the threshold and more than 300 seconds have passed since it
\* last fired, a kind that never fired counting as fired at time 0; firing
\* sets the kind's last-fired time to the current time.
C6_FiresAfterMoreThan300 ==
    (alert_log.called /\ alert_log.enabled) =>
      \A k \in Kinds :
        /\ Shown(k) <=>
             /\ AtOrAbove(k)
             /\ alert_log.time - DictGet(alert_log.before, k, 0) > ALERT_COOLDOWN
        /\ Shown(k) => /\ k \in DOMAIN last_alert_time
                       /\ last_alert_time[k] = alert_log.time

\* The temperature alert fires again, a cooldown after it fired before
C6_Witness ==
    /\ alert_log.called
    /\ alert_log.enabled
    /\ Shown("temp")
    /\ "temp" \in DOMAIN alert_log.before
    /\ alert_log.before["temp"] > 0

\* C7: two firings of the same kind are never less than 300 seconds apart.
C7_FiringsApart ==
    alert_log.called =>
      \A k \in Kinds :
        (Shown(k) /\ k \in DOMAIN alert_log.before)
          => alert_log.time - alert_log.before[k] >= ALERT_COOLDOWN

\* The utilization alert fires for the second time
C7_Witness ==
    /\ alert_log.called
    /\ Shown("util")
    /\ "util" \in DOMAIN alert_log.before

\* C8: an evaluation with a metric at or above its threshold and no
\* AlertState entry for the kind fires, whatever the current time.
C8_FirstAlwaysFires ==
    (alert_log.called /\ alert_log.enabled) =>
      \A k \in Kinds :
        (AtOrAbove(k) /\ k \notin DOMAIN alert_log.before) => Shown(k)

Entry(d, k) == IF k \in DOMAIN d THEN << d[k] >> ELSE << >>

\* The logged call again, with the other kind's metric missing
AloneShown(k) ==
    LET key == IF k = "temp" THEN "temperature" ELSE "utilization"
        m == [vals |-> [x \in {key} |-> LogMetric(k)], none |-> {}]
        cfg == [refresh_rate |-> config.refresh_rate,
                alert_temp |-> alert_log.alert_temp,
                alert_util |-> alert_log.alert_util,
                alert_enabled |-> alert_log.enabled]
        r == check_alerts(alert_log.before, m, cfg, alert_log.time)
    IN  \E i \in 1..Len(r.shown) : r.shown[i] = k

\* C9: the two kinds are debounced independently: a kind fires exactly when
\* it would with the other kind's metric absent, a kind that does not fire
\* keeps its last-fired time whatever the other does, and one evaluation
\* shows at most one notification per kind.
C9_KindsIndependent ==
    (alert_log.called /\ LogThreshold("temp") > 0 /\ LogThreshold("util") > 0) =>
      /\ Len(alert_log.shown) <= 2
      /\ \A i, j \in 1..Len(alert_log.shown) :
           alert_log.shown[i] = alert_log.shown[j] => i = j
      /\ \A k \in Kinds :
           /\ Shown(k) <=> AloneShown(k)
           /\ ~Shown(k) => Entry(last_alert_time, k) = Entry(alert_log.before, k)

\* Only the temperature alert fires, utilization is over its threshold too
\* and stays debounced
C9_Witness ==
    /\ alert_log.called
    /\ alert_log.shown = << "temp" >>
    /\ AtOrAbove("util")
    /\ "util" \in DOMAIN alert_log.before

\* C10: with alerts disabled check_alerts shows nothing and leaves
\* AlertState as it was; AlertState is empty until the first call, an entry
\* is added or overwritten only by a firing of its own kind, is never
\* removed and never decreases.
C10_AlertStateFrame ==
    /\ ~alert_log.called => last_alert_time = EmptyDict
    /\ alert_log.called =>
         /\ ~alert_log.enabled =>
              alert_log.shown = << >> /\ last_alert_time = alert_log.before
         /\ DOMAIN alert_log.before \subseteq DOMAIN last_alert_time
         /\ DOMAIN last_alert_time \subseteq Kinds
         /\ \A k \in DOMAIN last_alert_time :
              /\ k \in DOMAIN alert_log.before
                   => last_alert_time[k] >= alert_log.before[k]
              /\ Entry(last_alert_time, k) # Entry(alert_log.before, k)
                   => Shown(k) /\ last_alert_time[k] = alert_log.time

\* A call with alerts disabled, utilization at its threshold, an entry to
\* keep and the cooldown over
C10_Witness ==
    /\ alert_log.called
    /\ ~alert_log.enabled
    /\ AtOrAbove("util")
    /\ "util" \in DOMAIN alert_log.before
    /\ alert_log.time - alert_log.before["util"] > ALERT_COOLDOWN

\* C11: the timestamps held in the history never decrease in append order.
C11_TimestampsMonotone ==
    \A i, j \in 1..Len(history_data.time) :
        i < j => history_data.time[i].v <= history_data.time[j].v

PcOf(w) == worker[w].pc

Failed(w) == StartsWithError(worker[w].res.gpu)

\* C12: a failed fetch never ends the polling loop.  The cycle whose fetch
\* failed stores its error string in the mailbox and goes on to the sleep
\* loop, the sleep loop runs the configured number of slices and returns to
\* the loop test, the loop test starts the next fetch, and a worker leaves
\* its loop only at the loop test and only with the stop flag set.
C12_FailureKeepsPolling ==
    [][\A w \in Threads :
         /\ (PcOf(w) = "write_gpu" /\ Failed(w) /\ worker'[w] # worker[w]) =>
               /\ gpu_data_cache'["gpu_output"].val = worker[w].res.gpu
               /\ worker'[w].pc = "write_proc"
         /\ (PcOf(w) = "write_proc" /\ worker'[w] # worker[w]) =>
               worker'[w].pc = "write_ts"
         /\ (PcOf(w) = "write_ts" /\ worker'[w] # worker[w]) =>
               worker'[w].pc = "store_ts"
         /\ (PcOf(w) = "store_ts" /\ worker'[w] # worker[w]) =>
               /\ worker'[w].pc = "sleep"
               /\ worker'[w].left = config.refresh_rate \div SLEEP_SLICE_MS
         /\ (PcOf(w) = "sleep" /\ worker'[w] # worker[w]) =>
               \/ worker'[w].pc = "sleep" /\ worker'[w].left = worker[w].left - 1
               \/ /\ worker'[w].pc = "loop"
                  /\ worker[w].left = 0 \/ stop_update
         /\ (PcOf(w) = "loop" /\ worker'[w] # worker[w] /\ ~stop_update) =>
               worker'[w].pc = "fetch"
         /\ (PcOf(w) # "done" /\ worker'[w].pc = "done") =>
               PcOf(w) = "loop" /\ stop_update
    ]_vars

\* A worker whose previous cycle published an error string is fetching again
C12_Witness ==
    \E w \in Threads :
        /\ PcOf(w) = "fetch"
        /\ worker[w].n >= 2
        /\ "timestamp" \in DOMAIN gpu_data_cache
        /\ gpu_data_cache["timestamp"].pub = << w, worker[w].n - 1 >>
        /\ StartsWithError(gpu_data_cache["gpu_output"].val)
        /\ gpu_data_cache["gpu_output"].pub = << w, worker[w].n - 1 >>

\* C13: a poll cycle makes at most RETRIES fetch attempts.  A success is
\* handed to the mailbox writes at once, a failure other than the last is
\* followed by a RETRY_DELAY-second sleep and the next attempt, and an
\* error string is produced only by the failure of the last attempt.
C13_AtMostThreeAttempts ==
    [][\A w \in Threads :
         (PcOf(w) = "fetch" /\ worker'[w] # worker[w]) =>
            /\ worker[w].attempt < RETRIES
            /\ worker[w].slept = worker[w].attempt * RETRY_DELAY
            /\ \/ /\ worker'[w].pc = "fetch"
                  /\ worker[w].attempt < RETRIES - 1
                  /\ worker'[w].attempt = worker[w].attempt + 1
                  /\ worker'[w].slept = worker[w].slept + RETRY_DELAY
               \/ /\ worker'[w].pc = "write_gpu"
                  /\ worker'[w].attempt = worker[w].attempt
                  /\ StartsWithError(worker'[w].res.gpu) =>
                        worker[w].attempt = RETRIES - 1
    ]_vars

\* A cycle whose every attempt failed is about to publish its error string
C13_Witness ==
    \E w \in Threads :
        /\ PcOf(w) = "write_gpu"
        /\ Failed(w)
        /\ worker[w].attempt = RETRIES - 1
        /\ worker[w].slept = (RETRIES - 1) * RETRY_DELAY

Parsed == call.fn = "parse_gpu_metrics"

\* Field i of the line is a number
WellFormed(line, i) == Len(line) >= i /\ line[i].kind = "num"

\* Field i of the line is missing, empty or the [N/A] marker
Unavailable(line, i) == Len(line) < i \/ line[i].kind \in {"empty", "na"}

\* t is v cut down to a whole number (v >= 0, both in units of 1 / Scale)
TruncOf(v, t) == t % Scale = 0 /\ t <= v /\ v < t + Scale

\* The value the record is to hold for the well-formed field i
ParsedAs(line, i, x) ==
    IF i = 4 THEN TruncOf(line[i].val, x) ELSE x = line[i].val

\* C16, on the lines of six fields or more: each of the eight fields other
\* than the fan speed is bound to a number in the returned record, whatever
\* the other fields are: to its parsed value when it is well-formed, to its
\* fallback (0, or 1 for mem_total and power_limit) when it is empty,
\* missing or [N/A].
C16_EveryFieldResolves ==
    (Parsed /\ Len(call.arg) >= 6) =>
      \A i \in (1..9) \ {7} :
         /\ FieldKeys[i] \in DOMAIN call.res.vals
         /\ WellFormed(call.arg, i) =>
               ParsedAs(call.arg, i, call.res.vals[FieldKeys[i]])
         /\ Unavailable(call.arg, i) =>
               call.res.vals[FieldKeys[i]] = (IF i \in {3, 6} THEN Scale ELSE 0)

\* C17: no exception leaves parse_gpu_metrics, and metrics.get("fan_speed")
\* is None whenever the seventh field is missing, empty or [N/A].
C17_NeverRaisesFanUnknown ==
    Parsed =>
      /\ ~call.res.raised
      /\ Unavailable(call.arg, 7) => "fan_speed" \notin DOMAIN call.res.vals

\* A line that ends before the fan speed and on which an assignment raised
C17_Witness ==
    /\ Parsed
    /\ Len(call.arg) < 7
    /\ FirstRaise(call.arg) <= 9
    /\ ~call.res.raised
    /\ "fan_speed" \notin DOMAIN call.res.vals

\* Nine fields, all numbers
NineNumbers(line) == Len(line) = 9 /\ \A i \in 1..9 : line[i].kind = "num"

\* C18 as claimed: on nine numeric fields the nine values of the record
\* equal the nine input values, in order.
C18_RoundTripExact ==
    (Parsed /\ NineNumbers(call.arg)) =>
      \A i \in 1..9 :
         /\ FieldKeys[i] \in DOMAIN call.res.vals
         /\ call.res.vals[FieldKeys[i]] = call.arg[i].val

\* C18 amended: on nine numeric fields the values of the record equal the
\* input values, in order, except that temperature is the input value cut
\* down to a whole number.
C18_RoundTripTruncatedTemperature ==
    (Parsed /\ NineNumbers(call.arg)) =>
      \A i \in 1..9 :
         /\ FieldKeys[i] \in DOMAIN call.res.vals
         /\ ParsedAs(call.arg, i, call.res.vals[FieldKeys[i]])

\* Nine numeric fields with a fractional temperature have been parsed
C18_Witness ==
    /\ Parsed
    /\ NineNumbers(call.arg)
    /\ call.arg[4].val % Scale # 0
    /\ DOMAIN call.res.vals = {FieldKeys[i] : i \in 1..9}

\* A non-blank line of exactly three fields
Qualifies(line) == line # << "" >> /\ Len(line) = 3

\* How many of the first i lines of the block qualify
Rank(block, i) == Cardinality({j \in 1..i : Qualifies(block[j])})

\* C19: parse_processes returns one (pid, name, mem) entry for each
\* non-blank line of exactly three fields, in input order, and nothing for
\* any other line.
C19_OneEntryPerGoodLine ==
    call.fn = "parse_processes" =>
      /\ Len(call.res) = Rank(call.arg, Len(call.arg))
      /\ \A i \in 1..Len(call.arg) :
            Qualifies(call.arg[i]) =>
              /\ call.res[Rank(call.arg, i)].pid = call.arg[i][1]
              /\ call.res[Rank(call.arg, i)].name = call.arg[i][2]
              /\ call.res[Rank(call.arg, i)].mem = call.arg[i][3]

\* A block with a blank line, a line of four fields and one good line
C19_Witness ==
    /\ call.fn = "parse_processes"
    /\ \E i, j, k \in 1..Len(call.arg) :
          /\ call.arg[i] = << "" >>
          /\ Len(call.arg[j]) = 4
          /\ Qualifies(call.arg[k])
    /\ Len(call.res) = 1

\* An apply_limit call on a number, with both bounds known
AppliedWithBounds ==
    /\ call.fn = "apply_limit"
    /\ call.arg.text.kind = "num"
    /\ call.arg.min_.known
    /\ call.arg.max_.known

InBounds ==
    /\ call.arg.min_.val <= call.arg.text.val
    /\ call.arg.text.val <= call.arg.max_.val

\* C20: with both bounds known apply_limit runs the power-limit command
\* not at all for a value outside [min, max] and exactly once for a value
\* inside it, the bounds included, whether or not the command succeeds.
C20_CommandOnceInBounds ==
    AppliedWithBounds =>
      call.res.commands = (IF InBounds THEN 1 ELSE 0)

\* The value is the upper bound itself and the one command failed
C20_Witness ==
    /\ AppliedWithBounds
    /\ call.arg.text.val = call.arg.max_.val
    /\ call.arg.tool # "ok"
    /\ call.res.commands = 1
    /\ call.res.msg = "Failed"

\* b is a with the key k taken out, if it was there, and nothing else changed
Without(a, b, k) ==
    /\ DOMAIN b = (DOMAIN a) \ {k}
    /\ \A x \in DOMAIN b : b[x] = a[x]

\* C21: a successful power-limit write takes the cached power limits out
\* of the static cache and leaves the rest (the device name); a failed
\* write leaves the static cache as it was.
C21_WriteInvalidatesLimitsOnly ==
    call.fn = "set_power_limit" =>
      /\ static_cache = call.res.after
      /\ call.res.ok => Without(call.res.before, call.res.after, "power_limits")
      /\ ~call.res.ok => call.res.after = call.res.before

\* A successful write with both the device name and the limits cached
C21_Witness ==
    /\ call.fn = "set_power_limit"
    /\ call.res.ok
    /\ DOMAIN call.res.before = {"gpu_name", "power_limits"}
    /\ DOMAIN static_cache = {"gpu_name"}

\* C22: a read finding cached limits returns them without a tool
\* invocation and leaves the cache alone; a read whose tool invocation
\* succeeded caches what it returns; a read whose invocation failed returns
\* (None, None, None) and caches nothing; cached limits stay as they are
\* until a successful power-limit write removes them.
C22_ReadsUseCache ==
    /\ [](call.fn = "get_power_limits" =>
            IF "power_limits" \in DOMAIN call.res.before
              THEN /\ call.res.invocations = 0
                   /\ call.res.ret = call.res.before["power_limits"]
                   /\ call.res.after = call.res.before
            ELSE IF call.arg.ok
              THEN /\ call.res.ret = call.arg.out
                   /\ "power_limits" \in DOMAIN call.res.after
                   /\ call.res.after["power_limits"] = call.res.ret
            ELSE /\ call.res.ret = << None, None, None >>
                 /\ call.res.after = call.res.before)
    /\ [][("power_limits" \in DOMAIN static_cache) =>
            \/ /\ "power_limits" \in DOMAIN static_cache'
               /\ static_cache'["power_limits"] = static_cache["power_limits"]
            \/ call'.fn = "set_power_limit" /\ call'.res.ok]_vars

\* A read served from the cache
C22_Witness ==
    /\ call.fn = "get_power_limits"
    /\ "power_limits" \in DOMAIN call.res.before
    /\ call.res.invocations = 0
    /\ call.res.ret[2].known

\* Sample i of the history h, as (timestamp, utilization, temperature,
\* power, memory)
SampleTuple(h, i) ==
    << h.time[i].v, h.utilization[i].v, h.temperature[i].v, h.power[i].v,
       h.memory[i].v >>

\* The samples read back from a CSV file and from a JSON file
ReadCsv(file) ==
    [i \in 1..Len(file.rows) |-> [k \in 1..5 |-> file.rows[i][k].val]]

ReadJson(file) ==
    [i \in 1..Len(file.data) |->
       << file.data[i].timestamp.val, file.data[i].utilization.val,
          file.data[i].temperature.val, file.data[i].power.val,
          file.data[i].memory.val >>]

Exported == call.fn \in {"export_to_csv", "export_to_json"}

ReadBack ==
    IF call.fn = "export_to_csv" THEN ReadCsv(call.res) ELSE ReadJson(call.res)

\* C23: the file an export writes holds one record per retained sample, in
\* history order, with that sample's five values, and the export does not
\* change the history.
C23_ExportRoundTrip ==
    /\ [](Exported =>
            /\ Len(ReadBack) = Len(call.arg.time)
            /\ \A i \in 1..Len(call.arg.time) :
                  ReadBack[i] = SampleTuple(call.arg, i))
    /\ [][(call' # call /\ call'.fn \in {"export_to_csv", "export_to_json"}) =>
            /\ call'.arg = history_data
            /\ history_data' = history_data]_vars

\* A CSV export of two samples taken at different times
C23_Witness ==
    /\ call.fn = "export_to_csv"
    /\ Len(call.res.rows) = 2
    /\ call.res.rows[1][1] # call.res.rows[2][1]

\* C24: in every reachable state the refresh interval lies between 500 ms
\* and 60000 ms, whatever the config file held and whatever the refresh-rate
\* dialog was given.
C24_RefreshRateInRange == config.refresh_rate \in 500..60000

\* C30: a settings action that was rejected (the dialog showed an error)
\* leaves the config as it was before the action.
C30_RejectedLeavesConfig ==
    (/\ call.fn \in {"adjust_refresh_rate.apply", "alert_settings.apply"}
     /\ ~call.res.accepted)
    => call.res.after = call.res.before

\* C27: no step of a worker thread changes the history or the alert state
\* (it changes at most its own locals and the mailbox), and every step that
\* changes the history or the alert state is a step of update_gui.
C27_WorkerTouchesMailboxOnly ==
    /\ [][WorkerStep =>
            UNCHANGED << history_data, last_alert_time, stop_update,
                         update_thread, config, timers >>]_vars
    /\ [][(history_data' # history_data \/ last_alert_time' # last_alert_time)
            => UpdateGuiStep]_vars

\* A worker has published twice while the history and the alert state hold
\* what a tick wrote
C27_Witness ==
    /\ Published >= 2
    /\ Len(history_data.time) >= 1
    /\ last_alert_time # EmptyDict

\* C28: at most one tick of update_gui is pending or running at any time.
C28_AtMostOneTick ==
    timers + (IF mpc \in {"ug_begin", "ug_read_proc", "ug_read_ts",
                          "ug_app_time", "ug_app_rest", "ug_alerts"}
              THEN 1 ELSE 0) <= 1

\* A step of the main thread while its tick holds an error observation
ErrorTickStep ==
    /\ mpc \in {"ug_read_proc", "ug_read_ts", "ug_app_time"}
    /\ StartsWithError(ug.gpu.val)
    /\ mpc' # mpc

\* C25: a tick that finds an error observation appends nothing to the
\* history and does not evaluate alerts, and it ends by scheduling the next
\* tick; a tick that finds a successful observation starts appending it
\* whatever the tick before found.
C25_ErrorTickSkipsAndReschedules ==
    /\ [][ErrorTickStep =>
            /\ UNCHANGED << history_data, last_alert_time, alert_log >>
            /\ mpc = "ug_app_time" =>
                  /\ mpc' = "idle"
                  /\ timers' = timers + 1
                  /\ call'.res.kind = "error"]_vars
    /\ [][(/\ mpc = "ug_app_time"
            /\ ~StartsWithError(ug.gpu.val)
            /\ mpc' # mpc) =>
            /\ mpc' = "ug_app_rest"
            /\ history_data'.time # history_data.time]_vars

\* A tick has appended the observation it read after the tick before it
\* ended on an error observation
C25_Witness ==
    /\ mpc = "ug_alerts"
    /\ call.fn = "update_gui"
    /\ call.res.kind = "error"
    /\ call.arg # ug.gpu.pub
    /\ Len(history_data.memory) = 1

\* C26: a tick that finds no observation schedules the next tick after 500 ms
\* and changes neither the history nor the alert state; a tick that processed
\* a successful observation schedules the next tick after the configured
\* refresh interval.
C26_RescheduleDelays ==
    /\ []((call.fn = "update_gui" /\ call.res.kind = "no observation")
           => call.res.delay = 500)
    /\ []((call.fn = "update_gui" /\ call.res.kind = "processed")
           => call.res.delay = config.refresh_rate)
    /\ [][(/\ mpc = "ug_begin"
            /\ ~stop_update
            /\ "gpu_output" \notin DOMAIN gpu_data_cache
            /\ mpc' # mpc) =>
            /\ UNCHANGED << history_data, last_alert_time, alert_log >>
            /\ mpc' = "idle"
            /\ timers' = timers + 1
            /\ call'.res.kind = "no observation"]_vars
    /\ [][(mpc = "ug_alerts" /\ mpc' # mpc) =>
            /\ timers' = timers + 1
            /\ call'.res.kind = "processed"]_vars

\* A tick found no observation and waited 500 ms, and the tick after it is
\* about to end after processing an observation
C26_Witness ==
    /\ call.fn = "update_gui"
    /\ call.res.kind = "no observation"
    /\ call.res.delay = 500
    /\ mpc = "ug_alerts"
    /\ Len(history_data.memory) = 1

\* C29: a tick that appends a sample does not append the publication that
\* the tick before it appended.
C29_AppendedAtMostOnce ==
    (/\ mpc \in {"ug_app_rest", "ug_alerts"}
     /\ call.fn = "update_gui"
     /\ call.res.kind = "processed")
    => ug.gpu.pub # call.arg

=============================================================================
